---- MODULE Spec2Model ----
(***************************************************************************)
(* Request execution core of the DCA-Auth Python SDK                       *)
(* (packages/sdk-python/src/dca_auth/client.py): request building, the     *)
(* retry loop of _make_request_with_retry, and token refresh, which is     *)
(* issued through the same executor and therefore nests.                   *)
(*                                                                         *)
(* One client, one thread of control.  The call stack is explicit: a frame *)
(* is one activation of _make_request_with_retry.  The server and the      *)
(* network are the environment: every dispatch draws its outcome from      *)
(* ServerOutcomes.                                                         *)
(***************************************************************************)
EXTENDS Integers, Sequences, FiniteSets, TLC

\* ------------------------------------------------------------------ bounds
MaxRetries == 2
MaxTok == 2
MaxDepth == 3
MaxDigits == 1

\* --------------------------------------------------------------- constants
NoToken == 0
CallerAuth == -1
RefreshBase == 10
DefaultRetryAfter == 60

\* Access tokens are 1..MaxTok; the refresh token issued together with access
\* token t is RefreshBase + t, so the two kinds are never confused.
Tokens == 1..MaxTok
RefreshTokens == {RefreshBase + t : t \in Tokens}

\* The configurations the constructor is given: every retry count up to
\* MaxRetries, automatic refresh on and off, and two samples of the pair
\* (retry_delay, api_key present), which do not interact.
DelayAndKey == {<<1, TRUE>>, <<3, FALSE>>}

Configs ==
    {[retries |-> r, retry_delay |-> p[1], auto_refresh_token |-> a, api_key |-> p[2]] :
        r \in 0..MaxRetries, a \in BOOLEAN, p \in DelayAndKey}

Methods == {"GET", "POST"}
method_whitelist == {"HEAD", "GET", "PUT", "DELETE", "OPTIONS", "TRACE"}
status_forcelist == {429, 500, 502, 503, 504}

\* ------------------------------------------------------ Retry-After header
\* A header value is a string (a sequence of characters); <<>> stands for an
\* absent header.  The values the server sends: digit strings of up to
\* MaxDigits digits, a negative number, and two strings that are no number.
RECURSIVE DigitStrings(_)
DigitStrings(n) ==
    IF n = 0 THEN {}
    ELSE {<<"2">>} \cup {Append(s, "2") : s \in DigitStrings(n - 1)}

RetryAfterHeaders ==
    {<<>>, <<"x">>, <<"2", "x">>, <<"-", "2">>} \cup DigitStrings(MaxDigits)

IsDigit(c) == c = "2"
DigitVal(c) == 2

RECURSIVE DigitsValue(_)
DigitsValue(s) ==
    IF Len(s) = 0 THEN 0
    ELSE 10 * DigitsValue(SubSeq(s, 1, Len(s) - 1)) + DigitVal(s[Len(s)])

AllDigits(s) == Len(s) > 0 /\ \A i \in 1..Len(s) : IsDigit(s[i])

\* Python's int(str): an optional sign followed by at least one digit.
PyInt(s) ==
    IF AllDigits(s) THEN [ok |-> TRUE, v |-> DigitsValue(s)]
    ELSE IF Len(s) > 1 /\ s[1] = "-" /\ AllDigits(Tail(s))
         THEN [ok |-> TRUE, v |-> 0 - DigitsValue(Tail(s))]
         ELSE [ok |-> FALSE, v |-> 0]

\* int(response.headers.get("Retry-After", 60))
ParseRetryAfter(h) ==
    IF h = <<>> THEN [ok |-> TRUE, v |-> DefaultRetryAfter] ELSE PyInt(h)

\* ------------------------------------------------------------ environment
\* Bodies of a 200 answer of the refresh endpoint: the full pair, a body
\* lacking one of the two keys, and a body that is no JSON.
Bodies ==
    {[shape |-> "full", a |-> t, r |-> RefreshBase + t] : t \in Tokens}
    \cup {[shape |-> "noRefresh", a |-> t, r |-> NoToken] : t \in Tokens}
    \cup {[shape |-> "noAccess", a |-> NoToken, r |-> RefreshBase + t] : t \in Tokens}
    \cup {[shape |-> "badjson", a |-> NoToken, r |-> NoToken]}

NoBody == [shape |-> "badjson", a |-> NoToken, r |-> NoToken]

Statuses == {200, 204, 401, 404, 429, 503}

Resp(s, h, b) == [t |-> "response", status |-> s, hdr |-> h, body |-> b]
Exc(e) == [t |-> e, status |-> 0, hdr |-> <<>>, body |-> NoBody]

\* What the server or the network answers to one dispatch.  Only the refresh
\* endpoint's 200 body is read by the executor; other bodies are opaque.
ServerOutcomes(kind) ==
    {Resp(200, <<>>, b) : b \in IF kind = "refresh" THEN Bodies ELSE {NoBody}}
    \cup {Resp(429, h, NoBody) : h \in RetryAfterHeaders}
    \cup {Resp(s, <<>>, NoBody) : s \in Statuses \ {200, 429}}
    \cup {Exc(e) : e \in {"ConnectionError", "Timeout", "RequestException"}}

\* The session's mounted HTTPAdapter with the Retry strategy: for a method of
\* the whitelist a response whose status is in status_forcelist is retried
\* inside the library and surfaces as requests.exceptions.RetryError, a
\* RequestException; every other outcome passes through.
_original_request(method, o) ==
    IF o.t = "response" /\ method \in method_whitelist /\ o.status \in status_forcelist
    THEN Exc("RequestException")
    ELSE o

\* ------------------------------------------------------------------ state
\* cfg           the constructor's configuration
\* storage       the credential store (keys access_token, refresh_token)
\* stack         activations of _make_request_with_retry, innermost last
\* sent          the request descriptor of the last dispatch
\* got           what the last dispatch gave back to the executor
\* fx            the side effects (emit, sleep, raise) of the last step, in order
\* step          the operation that made the last step
\* nDispatch     dispatches of the current logical request
\* nRefreshCalls invocations of _refresh_access_token for the current request
\* refreshRet    what the last completed _refresh_access_token returned
\* resp          the response last handed to the classifier handle_api_error
\* err           what the classifier returned (or the exception it raised)
\* conc          the threads that use one client at the same time: where each
\*               stands in its call, and the token pairs the server has issued
\* em            the client's event emitter: its listener lists and the
\*               emission in progress
VARIABLES cfg, storage, stack, sent, got, fx, step, nDispatch, nRefreshCalls,
          refreshRet, resp, err, conc, em

vars == <<cfg, storage, stack, sent, got, fx, step, nDispatch, nRefreshCalls,
          refreshRet, resp, err, conc, em>>

\* The classifier is not called by the executor: its variables keep their
\* initial value while requests run.
classifier == <<resp, err>>

NoSent ==
    [kind |-> "none", method |-> "GET", skip_auth |-> FALSE, auth |-> NoToken,
     apikey |-> FALSE, attempt |-> 0, depth |-> 0]

Emit(name, v, w) == [op |-> "emit", name |-> name, v |-> v, w |-> w]
Sleep(d) == [op |-> "sleep", name |-> "time.sleep", v |-> d, w |-> 0]
RaiseFx(e, ra) == [op |-> "raise", name |-> e, v |-> ra, w |-> 0]

RECURSIVE Pow2(_)
Pow2(n) == IF n = 0 THEN 1 ELSE 2 * Pow2(n - 1)

\* BackoffDelay with 2 * attempt written for 2 ** attempt.
BackoffDelay_Times(attempt) == cfg.retry_delay * (2 * attempt)

\* time.sleep(self.retry_delay * (2 ** attempt))
BackoffDelay(attempt) == cfg.retry_delay * Pow2(attempt)

\* request(): with _skip_auth the caller's Authorization header is popped.
RequestHeaders(skip_auth, callerAuth) ==
    IF skip_auth THEN NoToken ELSE callerAuth

\* request_wrapper: the stored access token is attached when the headers
\* carry no Authorization.
WrapperAuth(hdrAuth) ==
    IF storage.access_token # NoToken /\ hdrAuth = NoToken
    THEN storage.access_token
    ELSE hdrAuth

\* A fresh activation of _make_request_with_retry, entered through request()
\* and request_wrapper.
NewFrame(kind, method, skip_auth, callerAuth) ==
    [kind |-> kind, method |-> method, skip_auth |-> skip_auth,
     auth |-> WrapperAuth(RequestHeaders(skip_auth, callerAuth)),
     apikey |-> cfg.api_key,
     attempt |-> 0, last_exception |-> "None", pc |-> "dispatch",
     exc |-> "None", exc_ra |-> 0, status |-> 0, body |-> NoBody,
     refreshed |-> "no"]

Done(f) == f.pc \in {"returned", "raised"}
Idle == stack = <<>> \/ (Len(stack) = 1 /\ Done(stack[1]))
Top == stack[Len(stack)]

Raise(f, e, ra) == [f EXCEPT !.pc = "raised", !.exc = e, !.exc_ra = ra]

\* `continue` inside the for loop: the next attempt index.
Continue(f) == [f EXCEPT !.attempt = @ + 1, !.pc = "dispatch"]

\* The loop is over: raise last_exception, or the catch-all DCAAuthError.
LoopEnd(f) ==
    IF f.last_exception # "None"
    THEN Raise(f, f.last_exception, 0)
    ELSE Raise(f, "DCAAuthError", 0)

\* The typed error an except clause keeps in last_exception.
Wrapped(e) ==
    IF e \in {"ConnectionError", "Timeout"} THEN "NetworkError" ELSE "DCAAuthError"

\* OnException with the bound of the retry test off by one.
OnException_OffByOne(f, e) ==
    LET g == [f EXCEPT !.last_exception = Wrapped(e)]
    IN  IF f.attempt <= cfg.retries
        THEN [f |-> Continue(g),
              fx |-> <<Sleep(BackoffDelay(f.attempt))>>]
        ELSE [f |-> LoopEnd(g), fx |-> <<RaiseFx(Wrapped(e), 0)>>]

\* The three except clauses: ConnectionError and Timeout become NetworkError,
\* any other RequestException becomes DCAAuthError; each sleeps and continues
\* while attempts remain, and otherwise falls out of the loop.
OnException(f, e) ==
    LET g == [f EXCEPT !.last_exception = Wrapped(e)]
    IN  IF f.attempt < cfg.retries
        THEN [f |-> Continue(g),
              fx |-> <<Sleep(BackoffDelay(f.attempt))>>]
        ELSE [f |-> LoopEnd(g), fx |-> <<RaiseFx(Wrapped(e), 0)>>]

\* The 429 branch.  int() raises ValueError on an unparseable header and
\* time.sleep raises ValueError on a negative duration; neither is caught.
On429(f, hdr) ==
    LET p == ParseRetryAfter(hdr)
        ev == Emit("rate_limit", p.v, 0)
    IN  IF ~p.ok
        THEN [f |-> Raise(f, "ValueError", 0), fx |-> <<RaiseFx("ValueError", 0)>>]
        ELSE IF f.attempt < cfg.retries
             THEN IF p.v < 0
                  THEN [f |-> Raise(f, "ValueError", 0),
                        fx |-> <<ev, RaiseFx("ValueError", 0)>>]
                  ELSE [f |-> Continue(f), fx |-> <<ev, Sleep(p.v)>>]
             ELSE [f |-> Raise(f, "RateLimitError", p.v),
                   fx |-> <<ev, RaiseFx("RateLimitError", p.v)>>]

\* Handle with a 401 treated like any other error status (raise_for_status
\* and the retrying except clause) instead of raising AuthenticationError.
Handle_401Retried(f, o) ==
    IF o.t # "response" THEN OnException(f, o.t)
    ELSE IF o.status = 429 THEN On429(f, o.hdr)
    ELSE IF o.status >= 400
         THEN OnException(f, "RequestException")
    ELSE [f |-> [f EXCEPT !.pc = "returned", !.status = o.status, !.body = o.body],
          fx |-> <<>>]

\* What the executor does with a dispatch outcome other than a 401 that
\* goes to refresh.
Handle(f, o) ==
    IF o.t # "response" THEN OnException(f, o.t)
    ELSE IF o.status = 429 THEN On429(f, o.hdr)
    ELSE IF o.status = 401
         THEN [f |-> Raise(f, "AuthenticationError", 0),
               fx |-> <<RaiseFx("AuthenticationError", 0)>>]
    ELSE IF o.status >= 400
         THEN OnException(f, "RequestException")
    ELSE [f |-> [f EXCEPT !.pc = "returned", !.status = o.status, !.body = o.body],
          fx |-> <<>>]

\* ----------------------------------------------------------- token refresh
\* _refresh_access_token after its POST came back in frame g: on status 200
\* the body is parsed and the two tokens are stored one after the other, then
\* auth:refresh is emitted; any exception (a raised request, unparseable
\* JSON, a missing key) is swallowed and the call returns False.
RefreshOutcome(g) ==
    IF g.pc = "returned" /\ g.status = 200
    THEN CASE g.body.shape = "full" ->
                [ret |-> TRUE,
                 store |-> [access_token |-> g.body.a, refresh_token |-> g.body.r],
                 fx |-> <<Emit("auth:refresh", g.body.a, g.body.r)>>]
           [] g.body.shape = "noRefresh" ->
                [ret |-> FALSE,
                 store |-> [storage EXCEPT !.access_token = g.body.a],
                 fx |-> <<>>]
           [] OTHER -> [ret |-> FALSE, store |-> storage, fx |-> <<>>]
    ELSE [ret |-> FALSE, store |-> storage, fx |-> <<>>]

\* The 401 branch of the caller once refresh has returned r: on True the new
\* access token replaces the Authorization header and the loop continues
\* (the for loop advances to the next attempt index); on False
\* AuthenticationError is raised.
AfterRefresh(f, r, store) ==
    IF r
    THEN LET g == [f EXCEPT !.auth = store.access_token, !.refreshed = "true"]
         IN  IF g.attempt < cfg.retries
             THEN [f |-> Continue(g), fx |-> <<>>]
             ELSE [f |-> LoopEnd(g), fx |-> <<RaiseFx(LoopEnd(g).exc, 0)>>]
    ELSE [f |-> Raise([f EXCEPT !.refreshed = "false"], "AuthenticationError", 0),
          fx |-> <<RaiseFx("AuthenticationError", 0)>>]

\* RefreshIssuesRequest without the early return on a missing refresh token.
RefreshIssuesRequest_NoTokenCheck == Len(stack) < MaxDepth

\* Whether _refresh_access_token gets as far as issuing its POST: it returns
\* False at once without a refresh token, and at the interpreter's recursion
\* limit the nested call raises RecursionError, which its except clause
\* swallows.
RefreshIssuesRequest == storage.refresh_token # NoToken /\ Len(stack) < MaxDepth

\* ------------------------------------------------------------- classifier
\* exceptions.py: the error classes and handle_api_error.  Strings that the
\* code takes apart are sequences of tokens: a code is <<"LICENSE_", suffix>>
\* or a single token, a message is the sequence of its parts.  An optional
\* JSON member is tagged absent, null or present.
LicenseKeys == {"ABC", "XYZ"}
None == "None"
NoRetryAfter == [some |-> FALSE, v |-> 0]
EmptyDict == <<>>
Dict(d) == [t |-> "dict", d |-> d]
NoDetails == [t |-> "null", d |-> EmptyDict]

Get(d, key, default) == IF key \in DOMAIN d THEN d[key] ELSE default

License(suffix) == <<"LICENSE_", suffix>>
startswith_LICENSE(code) == Len(code) > 0 /\ code[1] = "LICENSE_"

\* DCAAuthError.__init__ (details or {}), the base of every class.
DCAAuthError(kind, message, code, details, status_code) ==
    [kind |-> kind, message |-> message, code |-> code,
     details |-> IF details.t = "dict" THEN details.d ELSE EmptyDict,
     status_code |-> status_code, retry_after |-> NoRetryAfter, fields |-> None]

AuthenticationError(message, details) ==
    DCAAuthError("AuthenticationError", message, <<"AUTHENTICATION_ERROR">>, details, 401)

AuthorizationError(message, details) ==
    DCAAuthError("AuthorizationError", message, <<"AUTHORIZATION_ERROR">>, details, 403)

ValidationError(message, fields) ==
    [DCAAuthError("ValidationError", message, <<"VALIDATION_ERROR">>,
                  Dict([k \in {"fields"} |-> fields]), 400)
        EXCEPT !.fields = fields]

NotFoundError(resource, resource_id) ==
    DCAAuthError("NotFoundError",
                 IF resource_id # None
                 THEN <<resource, "with id", resource_id, "not found">>
                 ELSE <<resource, "not found">>,
                 <<"NOT_FOUND">>,
                 Dict([k \in {"resource", "id"} |->
                        IF k = "resource" THEN resource ELSE resource_id]),
                 404)

ConflictError(message, details) ==
    DCAAuthError("ConflictError", message, <<"CONFLICT">>, details, 409)

RateLimitError(message, retry_after) ==
    [DCAAuthError("RateLimitError", message, <<"RATE_LIMIT_EXCEEDED">>,
                  Dict([k \in {"retry_after"} |-> retry_after]), 429)
        EXCEPT !.retry_after = retry_after]

ServerError(message, status_code) ==
    DCAAuthError("ServerError", message, <<"SERVER_ERROR">>, NoDetails, status_code)

LicenseError(kind, message, code, details) ==
    DCAAuthError(kind, message, code, details, 0)

LicenseExpiredError(license_key, expired_at) ==
    LicenseError("LicenseExpiredError", <<"License", license_key, "has expired">>,
                 License("EXPIRED"),
                 Dict([k \in {"license_key", "expired_at"} |->
                        IF k = "license_key" THEN license_key ELSE expired_at]))

LicenseNotFoundError(license_key) ==
    LicenseError("LicenseNotFoundError", <<"License", license_key, "not found">>,
                 License("NOT_FOUND"), Dict([k \in {"license_key"} |-> license_key]))

MaxActivationsError(license_key, max_activations, current_activations) ==
    LicenseError("MaxActivationsError",
                 <<"License", license_key, "has reached maximum activations">>,
                 License("ACTIVATION_ERROR"),
                 Dict([k \in {"license_key", "reason", "max_activations",
                               "current_activations"} |->
                        CASE k = "license_key" -> license_key
                          [] k = "reason" -> "max_activations_reached"
                          [] k = "max_activations" -> max_activations
                          [] OTHER -> current_activations]))

\* An exception raised by handle_api_error itself instead of a return value.
Raised(exception) ==
    [kind |-> exception, message |-> <<>>, code |-> <<>>, details |-> EmptyDict,
     status_code |-> 0, retry_after |-> NoRetryAfter, fields |-> None]

\* ErrorData with the fallback forgetting response.text.
ErrorData_NoText(response) ==
    IF response.json = "invalid"
    THEN [json |-> "object",
          message |-> [t |-> "str", v |-> "Unknown error"],
          code |-> [t |-> "absent", v |-> <<>>],
          details |-> [t |-> "absent", d |-> EmptyDict]]
    ELSE [json |-> response.json, message |-> response.message,
          code |-> response.code, details |-> response.details]

\* response.json() in the try, and the fallback on failure:
\* {"message": response.text or "Unknown error"}.
ErrorData(response) ==
    IF response.json = "invalid"
    THEN [json |-> "object",
          message |-> [t |-> "str", v |-> IF response.text # "" THEN response.text
                                          ELSE "Unknown error"],
          code |-> [t |-> "absent", v |-> <<>>],
          details |-> [t |-> "absent", d |-> EmptyDict]]
    ELSE [json |-> response.json, message |-> response.message,
          code |-> response.code, details |-> response.details]

\* The retry-after of the 429 branch: the header when it is there, turned
\* into an int, and None when int() fails or the header is missing.
HeaderRetryAfter(hdr) ==
    IF hdr # <<>> /\ PyInt(hdr).ok
    THEN [some |-> TRUE, v |-> PyInt(hdr).v]
    ELSE NoRetryAfter

\* The License branch: only LICENSE_EXPIRED and LICENSE_NOT_FOUND have a
\* class of their own; the test for MAX_ACTIVATIONS_REACHED sits inside the
\* LICENSE_ prefix test.
LicenseDispatch(message, code, details) ==
    IF code = License("EXPIRED")
    THEN IF details.t = "null" THEN Raised("AttributeError")
         ELSE LicenseExpiredError(Get(details.d, "license_key", "unknown"),
                                  Get(details.d, "expired_at", None))
    ELSE IF code = License("NOT_FOUND")
    THEN IF details.t = "null" THEN Raised("AttributeError")
         ELSE LicenseNotFoundError(Get(details.d, "license_key", "unknown"))
    ELSE IF code = <<"MAX_ACTIVATIONS_REACHED">>
    THEN IF details.t = "null" THEN Raised("AttributeError")
         ELSE MaxActivationsError(Get(details.d, "license_key", "unknown"),
                                  Get(details.d, "max_activations", 0),
                                  Get(details.d, "current_activations", 0))
    ELSE LicenseError("LicenseError", message, code, details)

handle_api_error(response) ==
    LET error_data == ErrorData(response)
        status_code == response.status
        message == CASE error_data.message.t = "absent" -> <<"Unknown error">>
                     [] error_data.message.t = "null" -> <<None>>
                     [] OTHER -> <<error_data.message.v>>
        ct == error_data.code.t
        code == IF ct = "absent" THEN <<"UNKNOWN_ERROR">> ELSE error_data.code.v
        details == IF error_data.details.t = "absent" THEN Dict(EmptyDict)
                   ELSE error_data.details
        dt == details.t
        dv == details
    IN  IF error_data.json # "object" THEN Raised("AttributeError")
        ELSE IF status_code = 400
        THEN IF ct = "str" /\ code = <<"VALIDATION_ERROR">>
             THEN IF dt = "null" THEN Raised("AttributeError")
                  ELSE ValidationError(message, Get(details.d, "fields", None))
             ELSE DCAAuthError("DCAAuthError", message, code, dv, status_code)
        ELSE IF status_code = 401 THEN AuthenticationError(message, dv)
        ELSE IF status_code = 403 THEN AuthorizationError(message, dv)
        ELSE IF status_code = 404
        THEN IF dt = "null" THEN Raised("AttributeError")
             ELSE NotFoundError(Get(details.d, "resource", "Resource"),
                                Get(details.d, "id", None))
        ELSE IF status_code = 409 THEN ConflictError(message, dv)
        ELSE IF status_code = 429
        THEN RateLimitError(message, HeaderRetryAfter(response.hdr))
        ELSE IF status_code >= 500 THEN ServerError(message, status_code)
        ELSE IF ct = "null" THEN Raised("AttributeError")
        ELSE IF startswith_LICENSE(code) THEN LicenseDispatch(message, code, details)
        ELSE DCAAuthError("DCAAuthError", message, code, dv, status_code)

\* The responses handed to the classifier: every status branch and two
\* statuses no branch matches; a body that is not JSON, JSON that is not an
\* object, or an object whose message, code and details are each absent,
\* null or present.
ErrorStatuses == {400, 401, 403, 404, 409, 422, 429, 500, 503}
ErrorCodes ==
    {<<"VALIDATION_ERROR">>, <<"NOT_FOUND">>, <<"MAX_ACTIVATIONS_REACHED">>,
     License("EXPIRED"), License("NOT_FOUND"), License("INACTIVE"),
     License("ACTIVATION_ERROR"), License("MAX_ACTIVATIONS_REACHED"),
     License("SUSPENDED")}
DetailDicts ==
    {EmptyDict, [k \in {"fields"} |-> "email"], [k \in {"retry_after"} |-> 7]}
      \cup {[k \in {"license_key"} |-> key] : key \in LicenseKeys}
      \cup {[k \in {"resource", "id"} |-> IF k = "resource" THEN "License" ELSE key] :
                key \in LicenseKeys}
OptMessages == {[t |-> "absent", v |-> ""], [t |-> "null", v |-> ""],
                [t |-> "str", v |-> "denied"]}
OptCodes == {[t |-> "absent", v |-> <<>>], [t |-> "null", v |-> <<>>]}
              \cup {[t |-> "str", v |-> c] : c \in ErrorCodes}
OptDetails == {[t |-> "absent", d |-> EmptyDict], NoDetails}
                \cup {Dict(d) : d \in DetailDicts}
ClassifierHeaders(status) == IF status = 429 THEN RetryAfterHeaders ELSE {<<>>}
Responses ==
    UNION {
      {[status |-> st, hdr |-> h, json |-> "object", text |-> "{}",
        message |-> m, code |-> c, details |-> d] :
          h \in ClassifierHeaders(st), m \in OptMessages, c \in OptCodes, d \in OptDetails}
      \cup
      {[status |-> st, hdr |-> h, json |-> j[1], text |-> j[2],
        message |-> [t |-> "absent", v |-> ""], code |-> [t |-> "absent", v |-> <<>>],
        details |-> [t |-> "absent", d |-> EmptyDict]] :
          h \in ClassifierHeaders(st),
          j \in {<<"invalid", "">>, <<"invalid", "Bad Gateway">>, <<"array", "[]">>}}
      : st \in ErrorStatuses}

\* Nothing has been handed to the classifier.
NoResponse == [status |-> 0]
NoError == [kind |-> "none"]

NotClassified == resp = NoResponse /\ err = NoError

\* ---------------------------------------------------------------- threads
\* Two application threads share one client and so one credential store.
\* A thread is described by the place it has reached in its call (pc), the
\* Authorization token its request carries (auth), its attempt index, the
\* refresh token it read (rt) and the access token of the pair it received
\* or was given (data); second records that it entered
\* _refresh_access_token while the other thread was inside it.
Threads == {1, 2}
Other(t) == CHOOSE u \in Threads : u # t

NewThread ==
    [pc |-> "idle", auth |-> NoToken, attempt |-> 0, rt |-> NoToken, data |-> NoToken,
     second |-> FALSE, exc |-> "none"]

\* No thread has been started: the client is used by a single caller.
NoThreads == conc = [th |-> <<>>, issued |-> 0]

\* The places of _refresh_access_token, lines 256-270.
RefreshPcs == {"refresh", "refresh_wait", "store_access", "store_refresh"}

\* ---------------------------------------------------------------- emitter
\* The client is an EventEmitter (utils.py) and forwards the events of its
\* managers (managers.py); the emitter's contract is the one of section 4.2
\* of the specification: on, off, emit and remove_all_listeners, listeners
\* called synchronously in subscription order, those of the exact name
\* before those of the wildcard "*", a raising listener logged and passed
\* over, a removed listener not called again.
Listeners == {1, 2}
Forwarder == 0
Wildcard == "*"
ExecutorEvents == {"rate_limit", "auth:refresh"}
ManagerEvents == {"license.activated"}
Keys == {"rate_limit", "license.activated", Wildcard}
Payloads == {1, 2}
AllManagers == {"licenses", "auth", "users", "webhooks", "realtime"}

Range(q) == {q[i] : i \in 1..Len(q)}
Without(q, l) == SelectSeq(q, LAMBDA x : x # l)

\* _setup_event_forwarding with the webhooks manager left out of the loop.
ForwardedManagers_NoWebhooks == {"licenses", "auth", "users"}

\* _setup_event_forwarding: the managers on whose "*" the client subscribes.
ForwardedManagers == {"licenses", "auth", "users", "webhooks"}

\* The subscribed lambda: lambda event, data: self.emit(event, data).
ForwarderCall(event, data) == [name |-> event, payload |-> data]

NoEvent == [name |-> "none", payload |-> 0]
NoDelivery == [on |-> "none", l |-> 0, key |-> "none", name |-> "none", payload |-> 0,
               invoked |-> FALSE, threw |-> FALSE]

\* No listener is subscribed and nothing is being emitted.
NoListeners == em = [queue |-> <<>>]

Delivery(on, l, key, e) ==
    [on |-> on, l |-> l, key |-> key, name |-> e.name, payload |-> e.payload]

\* emit(name, payload): the listeners of the exact name in subscription
\* order, then those of the wildcard.
EmitterDeliveries(reg, e) ==
    LET exact == IF e.name \in DOMAIN reg THEN reg[e.name] ELSE <<>>
        wild == reg[Wildcard]
    IN  [i \in 1..(Len(exact) + Len(wild)) |->
            IF i <= Len(exact)
            THEN Delivery("client", exact[i], e.name, e)
            ELSE Delivery("client", wild[i - Len(exact)], Wildcard, e)]

\* A listener is called with a snapshot of the lists taken when emit began.
StillSubscribed_Snapshot(reg, d) == TRUE

\* A listener is called only if it is still subscribed when its turn comes.
StillSubscribed(reg, d) == d.l \in Range(reg[d.key])

\* A raising listener ends the emission and the exception reaches the caller.
AfterListenerRaised_Propagates(queue) == [queue |-> <<>>, propagated |-> TRUE]

\* A raising listener is logged and the emission goes on with the next one.
AfterListenerRaised(queue) == [queue |-> Tail(queue), propagated |-> FALSE]

\* ---------------------------------------------------------------- actions
\* No logical request is under way and none has been made.
NoRequest ==
    /\ stack = <<>>
    /\ sent = NoSent
    /\ got = Exc("none")
    /\ nDispatch = 0
    /\ nRefreshCalls = 0
    /\ refreshRet = "none"

\* The bookkeeping of the current logical request is cleared.
ResetRequest ==
    /\ stack' = <<>>
    /\ sent' = NoSent
    /\ got' = Exc("none")
    /\ nDispatch' = 0
    /\ nRefreshCalls' = 0
    /\ refreshRet' = "none"

\* __init__: the configuration is fixed and the tokens given to the
\* constructor, if any, are stored.
Init ==
    /\ cfg \in Configs
    /\ storage \in [access_token : {NoToken, 1}, refresh_token : {NoToken, RefreshBase + 1}]
    /\ fx = <<>>
    /\ step = "init"
    /\ NoRequest
    /\ NotClassified
    /\ NoThreads
    /\ NoListeners

\* request(method, endpoint, **kwargs) up to the first dispatch.
StartRequestOf(m, skip, ca) ==
    /\ Idle
    /\ stack' = <<NewFrame("request", m, skip, ca)>>
    /\ sent' = NoSent
    /\ got' = Exc("none")
    /\ fx' = <<>>
    /\ step' = "request"
    /\ nDispatch' = 0
    /\ nRefreshCalls' = 0
    /\ refreshRet' = "none"
    /\ UNCHANGED <<cfg, storage, classifier, conc, em>>

StartRequest ==
    \E m \in Methods, skip \in BOOLEAN, ca \in {NoToken, CallerAuth} :
        StartRequestOf(m, skip, ca)

\* One iteration of the for loop of _make_request_with_retry in the innermost
\* activation: dispatch, the server or network answers so, then handle the
\* outcome.
DispatchOn(so) ==
    /\ stack # <<>>
    /\ Top.pc = "dispatch"
    /\ LET f == Top
            d == Len(stack)
            o == _original_request(f.method, so)
            refresh == o.t = "response" /\ o.status = 401
                       /\ cfg.auto_refresh_token /\ f.attempt = 0
        IN  /\ sent' = [kind |-> f.kind, method |-> f.method, skip_auth |-> f.skip_auth,
                        auth |-> f.auth, apikey |-> f.apikey, attempt |-> f.attempt,
                        depth |-> d]
            /\ got' = o
            /\ nDispatch' = IF d = 1 /\ f.kind = "request" THEN nDispatch + 1 ELSE nDispatch
            /\ IF refresh
               THEN /\ nRefreshCalls' = nRefreshCalls + 1
                    /\ IF RefreshIssuesRequest
                       THEN /\ stack' = [stack EXCEPT ![d] = [f EXCEPT !.pc = "refreshing"]]
                                         \o <<NewFrame("refresh", "POST", TRUE, NoToken)>>
                            /\ fx' = <<>>
                            /\ UNCHANGED refreshRet
                       ELSE LET h == AfterRefresh(f, FALSE, storage)
                            IN  /\ stack' = [stack EXCEPT ![d] = h.f]
                                /\ fx' = h.fx
                                /\ refreshRet' = "false"
               ELSE LET h == Handle(f, o)
                    IN  /\ stack' = [stack EXCEPT ![d] = h.f]
                        /\ fx' = h.fx
                        /\ UNCHANGED <<nRefreshCalls, refreshRet>>
    /\ step' = "dispatch"
    /\ UNCHANGED <<cfg, storage, classifier, conc, em>>

Dispatch ==
    /\ stack # <<>>
    /\ \E so \in ServerOutcomes(Top.kind) : DispatchOn(so)

\* The refresh POST is over: _refresh_access_token finishes and control is
\* back in the 401 branch of the caller (or in the application, when refresh
\* was called directly).
Resume ==
    /\ Len(stack) >= 1
    /\ Top.kind = "refresh"
    /\ Done(Top)
    /\ LET d == Len(stack)
           ro == RefreshOutcome(Top)
       IN  /\ storage' = ro.store
           /\ refreshRet' = IF ro.ret THEN "true" ELSE "false"
           /\ IF d = 1
              THEN /\ stack' = <<>>
                   /\ fx' = ro.fx
              ELSE LET h == AfterRefresh(stack[d - 1], ro.ret, ro.store)
                   IN  /\ stack' = [SubSeq(stack, 1, d - 1) EXCEPT ![d - 1] = h.f]
                       /\ fx' = ro.fx \o h.fx
    /\ step' = "resume"
    /\ UNCHANGED <<cfg, sent, got, nDispatch, nRefreshCalls, classifier, conc, em>>

\* _refresh_access_token called on its own.
CallRefresh ==
    /\ Idle
    /\ IF RefreshIssuesRequest
       THEN /\ stack' = <<NewFrame("refresh", "POST", TRUE, NoToken)>>
            /\ refreshRet' = "none"
       ELSE /\ stack' = <<>>
            /\ refreshRet' = "false"
    /\ sent' = NoSent
    /\ got' = Exc("none")
    /\ fx' = <<>>
    /\ step' = "refresh"
    /\ nDispatch' = 0
    /\ nRefreshCalls' = 1
    /\ UNCHANGED <<cfg, storage, classifier, conc, em>>

\* set_tokens(access_token, refresh_token=None)
SetTokens ==
    /\ Idle
    /\ \E a \in Tokens, r \in {NoToken} \cup RefreshTokens :
        /\ storage' = [access_token |-> a,
                       refresh_token |-> IF r # NoToken THEN r ELSE storage.refresh_token]
        /\ fx' = <<Emit("auth:tokens", a, r)>>
    /\ step' = "set_tokens"
    /\ ResetRequest
    /\ UNCHANGED <<cfg, classifier, conc, em>>

\* clear_tokens()
ClearTokens ==
    /\ Idle
    /\ storage' = [access_token |-> NoToken, refresh_token |-> NoToken]
    /\ fx' = <<Emit("auth:clear", 0, 0)>>
    /\ step' = "clear_tokens"
    /\ ResetRequest
    /\ UNCHANGED <<cfg, classifier, conc, em>>

Next ==
    \/ StartRequest
    \/ Dispatch
    \/ Resume
    \/ CallRefresh
    \/ SetTokens
    \/ ClearTokens

Spec == Init /\ [][Next]_vars

TypeOK ==
    /\ cfg \in Configs
    /\ storage.access_token \in {NoToken} \cup Tokens
    /\ storage.refresh_token \in {NoToken} \cup RefreshTokens
    /\ Len(stack) <= MaxDepth
    /\ refreshRet \in {"none", "true", "false"}

\* ------------------------------------------- scenario: 503, 503, 503, 200
\* A client built with retries = 3 issues POST requests (for which the
\* mounted adapter does no retrying of its own) to a server that answers 503
\* to the first three dispatches of a request and 200 to the fourth.
ScenarioRetries == 3

ScenarioInit ==
    /\ cfg \in {[retries |-> ScenarioRetries, retry_delay |-> p[1],
                  auto_refresh_token |-> a, api_key |-> p[2]] :
                    a \in BOOLEAN, p \in DelayAndKey}
    /\ storage \in [access_token : {NoToken, 1}, refresh_token : {NoToken, RefreshBase + 1}]
    /\ fx = <<>>
    /\ step = "init"
    /\ NoRequest
    /\ NotClassified
    /\ NoThreads
    /\ NoListeners

ScenarioRequest ==
    \E skip \in BOOLEAN, ca \in {NoToken, CallerAuth} : StartRequestOf("POST", skip, ca)

ScenarioDispatch ==
    DispatchOn(IF nDispatch < 3 THEN Resp(503, <<>>, NoBody) ELSE Resp(200, <<>>, NoBody))

ScenarioNext ==
    \/ ScenarioRequest
    \/ ScenarioDispatch

SpecScenario == ScenarioInit /\ [][ScenarioNext]_vars

\* ------------------------------------------------- classifier on its own
\* A caller holds any error response and hands it to handle_api_error.
ClassifyInit ==
    /\ cfg = [retries |-> MaxRetries, retry_delay |-> 1, auto_refresh_token |-> TRUE,
              api_key |-> FALSE]
    /\ storage = [access_token |-> NoToken, refresh_token |-> NoToken]
    /\ fx = <<>>
    /\ step = "init"
    /\ NoRequest
    /\ resp \in Responses
    /\ err = NoError
    /\ NoThreads
    /\ NoListeners

Classify ==
    /\ step = "init"
    /\ err' = handle_api_error(resp)
    /\ step' = "classify"
    /\ UNCHANGED <<cfg, storage, stack, sent, got, fx, nDispatch, nRefreshCalls,
                   refreshRet, resp, conc, em>>

ClassifyNext == Classify

SpecClassify == ClassifyInit /\ [][ClassifyNext]_vars

\* --------------------------------------------- two threads on one client
\* Each thread makes one call, a request or set_tokens, and the calls
\* interleave at every read and write of the credential store and at every
\* network exchange.  The server answers a request with 200 or 401; the
\* refresh endpoint answers with a fresh token pair, issued in order, or the
\* refresh call fails.  The store starts with a pair issued earlier.
ConcInit ==
    /\ cfg \in {[retries |-> r, retry_delay |-> 1, auto_refresh_token |-> a,
                  api_key |-> FALSE] : r \in 0..MaxRetries, a \in BOOLEAN}
    /\ storage = [access_token |-> MaxTok + 1, refresh_token |-> RefreshBase + MaxTok + 1]
    /\ fx = <<>>
    /\ step = "init"
    /\ NoRequest
    /\ NotClassified
    /\ conc = [th |-> [t \in Threads |-> NewThread], issued |-> 0]
    /\ NoListeners

Th(t) == conc.th[t]

\* The thread t moves on to the record r; everything but the store and the
\* notifications is untouched.
ThreadStep(t, r) ==
    /\ conc' = [conc EXCEPT !.th[t] = r]
    /\ UNCHANGED <<cfg, stack, sent, got, step, nDispatch, nRefreshCalls, refreshRet,
                   classifier, em>>

\* request_wrapper, line 167-169: the stored access token becomes the
\* request's Authorization.
ThreadRequest(t) ==
    /\ Th(t).pc = "idle"
    /\ ThreadStep(t, [Th(t) EXCEPT !.pc = "dispatch", !.auth = storage.access_token])
    /\ UNCHANGED <<storage, fx>>

\* _make_request_with_retry, lines 193-224, for the answers 200 and 401.
ThreadDispatch(t) ==
    /\ Th(t).pc = "dispatch"
    /\ \E status \in {200, 401} :
          ThreadStep(t,
            IF status = 200 THEN [Th(t) EXCEPT !.pc = "returned"]
            ELSE IF cfg.auto_refresh_token /\ Th(t).attempt = 0
            THEN [Th(t) EXCEPT !.pc = "refresh",
                               !.second = Th(Other(t)).pc \in RefreshPcs]
            ELSE [Th(t) EXCEPT !.pc = "raised", !.exc = "AuthenticationError"])
    /\ UNCHANGED <<storage, fx>>

\* _refresh_access_token, lines 256-263: the refresh token is read and, if
\* there is one, the POST to the refresh endpoint goes out.
ThreadRefreshSend(t) ==
    /\ Th(t).pc = "refresh"
    /\ ThreadStep(t,
          IF storage.refresh_token = NoToken
          THEN [Th(t) EXCEPT !.pc = "raised", !.exc = "AuthenticationError"]
          ELSE [Th(t) EXCEPT !.pc = "refresh_wait", !.rt = storage.refresh_token])
    /\ UNCHANGED <<storage, fx>>

\* Lines 261-266 and 272-275: the refresh call comes back with a fresh pair.
ThreadRefreshReply(t) ==
    /\ Th(t).pc = "refresh_wait"
    /\ conc.issued < MaxTok
    /\ conc' = [conc EXCEPT !.th[t] = [Th(t) EXCEPT !.pc = "store_access",
                                                     !.data = conc.issued + 1],
                            !.issued = conc.issued + 1]
    /\ UNCHANGED <<cfg, storage, stack, sent, got, fx, step, nDispatch, nRefreshCalls,
                   refreshRet, classifier, em>>

\* ... or it fails: _refresh_access_token returns False and line 219 raises.
ThreadRefreshFail(t) ==
    /\ Th(t).pc = "refresh_wait"
    /\ ThreadStep(t, [Th(t) EXCEPT !.pc = "raised", !.exc = "AuthenticationError"])
    /\ UNCHANGED <<storage, fx>>

\* Line 267.
ThreadStoreAccess(t) ==
    /\ Th(t).pc = "store_access"
    /\ storage' = [storage EXCEPT !.access_token = Th(t).data]
    /\ ThreadStep(t, [Th(t) EXCEPT !.pc = "store_refresh"])
    /\ UNCHANGED fx

\* Lines 268-270.
ThreadStoreRefresh(t) ==
    /\ Th(t).pc = "store_refresh"
    /\ storage' = [storage EXCEPT !.refresh_token = RefreshBase + Th(t).data]
    /\ fx' = <<Emit("auth:refresh", Th(t).data, RefreshBase + Th(t).data)>>
    /\ ThreadStep(t, [Th(t) EXCEPT !.pc = "reread"])

\* Lines 215-217 and the loop's end, 244-247: the stored access token is
\* read again for the retry.
ThreadReread(t) ==
    /\ Th(t).pc = "reread"
    /\ ThreadStep(t,
          IF Th(t).attempt + 1 <= cfg.retries
          THEN [Th(t) EXCEPT !.pc = "dispatch", !.auth = storage.access_token,
                             !.attempt = Th(t).attempt + 1]
          ELSE [Th(t) EXCEPT !.pc = "raised", !.auth = storage.access_token,
                             !.exc = "DCAAuthError"])
    /\ UNCHANGED <<storage, fx>>

\* set_tokens(access_token, refresh_token) with a fresh pair, line 342.
ThreadSetAccess(t) ==
    /\ Th(t).pc = "idle"
    /\ conc.issued < MaxTok
    /\ storage' = [storage EXCEPT !.access_token = conc.issued + 1]
    /\ conc' = [conc EXCEPT !.th[t] = [Th(t) EXCEPT !.pc = "set_refresh",
                                                     !.data = conc.issued + 1],
                            !.issued = conc.issued + 1]
    /\ UNCHANGED <<cfg, stack, sent, got, fx, step, nDispatch, nRefreshCalls, refreshRet,
                   classifier, em>>

\* set_tokens, lines 343-348.
ThreadSetRefresh(t) ==
    /\ Th(t).pc = "set_refresh"
    /\ storage' = [storage EXCEPT !.refresh_token = RefreshBase + Th(t).data]
    /\ fx' = <<Emit("auth:tokens", Th(t).data, RefreshBase + Th(t).data)>>
    /\ ThreadStep(t, [Th(t) EXCEPT !.pc = "returned"])

ConcNext ==
    \E t \in Threads :
        \/ ThreadRequest(t)
        \/ ThreadDispatch(t)
        \/ ThreadRefreshSend(t)
        \/ ThreadRefreshReply(t)
        \/ ThreadRefreshFail(t)
        \/ ThreadStoreAccess(t)
        \/ ThreadStoreRefresh(t)
        \/ ThreadReread(t)
        \/ ThreadSetAccess(t)
        \/ ThreadSetRefresh(t)

SpecConc == ConcInit /\ [][ConcNext]_vars

\* ----------------------------------------------------- emitter on its own
\* The application subscribes and unsubscribes listeners on the client and
\* closes it; the executor emits rate_limit and auth:refresh; a manager emits
\* a domain event, which the client's forwarder re-emits on the client.
\* Subscription changes may fall between two listener calls of an emission.
EmitterInit ==
    /\ cfg = [retries |-> MaxRetries, retry_delay |-> 1, auto_refresh_token |-> TRUE,
              api_key |-> FALSE]
    /\ storage = [access_token |-> NoToken, refresh_token |-> NoToken]
    /\ fx = <<>>
    /\ step = "init"
    /\ NoRequest
    /\ NotClassified
    /\ NoThreads
    /\ em = [reg |-> [k \in Keys |-> <<>>], queue |-> <<>>,
             last |-> NoDelivery, site |-> "none", propagated |-> FALSE,
             origin |-> NoEvent, reemitted |-> NoEvent, nReemit |-> 0]

EmitterStep(e, s) ==
    /\ em' = e
    /\ step' = s
    /\ UNCHANGED <<cfg, storage, stack, sent, got, fx, nDispatch, nRefreshCalls,
                   refreshRet, classifier, conc>>

\* on(event_name, listener)
On(key, l) ==
    /\ l \notin Range(em.reg[key])
    /\ EmitterStep([em EXCEPT !.reg[key] = Append(@, l)], "subscription")

\* off(event_name, listener)
Off(key, l) ==
    /\ l \in Range(em.reg[key])
    /\ EmitterStep([em EXCEPT !.reg[key] = Without(@, l)], "subscription")

\* close(): remove_all_listeners()
Close ==
    /\ \E k \in Keys : em.reg[k] # <<>>
    /\ EmitterStep([em EXCEPT !.reg = [k \in Keys |-> <<>>]], "subscription")

\* self.emit("rate_limit", ...) and self.emit("auth:refresh", data) in the
\* executor: the call site waits for emit to return.
ExecutorEmit(name) ==
    /\ em.site = "none"
    /\ \E data \in Payloads :
          EmitterStep([em EXCEPT !.queue = EmitterDeliveries(em.reg, ForwarderCall(name, data)),
                                 !.site = name, !.propagated = FALSE,
                                 !.last = NoDelivery],
                      "emit")

\* A manager emits a domain event: its wildcard listeners are the client's
\* forwarder, if the client subscribed one.
ManagerEmit(m) ==
    /\ em.site = "none"
    /\ \E name \in ManagerEvents, data \in Payloads :
          LET e == [name |-> name, payload |-> data]
          IN  EmitterStep([em EXCEPT !.queue = IF m \in ForwardedManagers
                                               THEN <<Delivery(m, Forwarder, Wildcard, e)>>
                                               ELSE <<>>,
                                     !.site = m, !.propagated = FALSE,
                                     !.last = NoDelivery,
                                     !.origin = e, !.reemitted = NoEvent, !.nReemit = 0],
                          "manager_emit")

\* The next listener of the emission in progress has its turn.
Deliver ==
    /\ em.queue # <<>>
    /\ LET d == Head(em.queue)
           called(threw) == [on |-> d.on, l |-> d.l, key |-> d.key, name |-> d.name,
                             payload |-> d.payload, invoked |-> TRUE, threw |-> threw]
       IN  IF d.on # "client"
           THEN LET e == ForwarderCall(d.name, d.payload)
                IN  EmitterStep([em EXCEPT !.queue = EmitterDeliveries(em.reg, e)
                                                       \o Tail(em.queue),
                                           !.last = called(FALSE),
                                           !.reemitted = e, !.nReemit = @ + 1],
                                "deliver")
           ELSE IF StillSubscribed(em.reg, d)
           THEN \/ EmitterStep([em EXCEPT !.queue = Tail(@), !.last = called(FALSE)],
                               "deliver")
                \/ LET r == AfterListenerRaised(em.queue)
                   IN  EmitterStep([em EXCEPT !.queue = r.queue,
                                              !.propagated = r.propagated,
                                              !.last = called(TRUE)],
                                   "deliver")
           ELSE EmitterStep([em EXCEPT !.queue = Tail(@),
                                       !.last = [called(FALSE) EXCEPT !.invoked = FALSE]],
                            "deliver")

\* emit returns to its call site.
EmitReturns ==
    /\ em.site # "none"
    /\ em.queue = <<>>
    /\ EmitterStep([em EXCEPT !.site = "none", !.last = NoDelivery,
                              !.origin = NoEvent, !.reemitted = NoEvent, !.nReemit = 0],
                   "emitted")

EmitterNext ==
    \/ \E k \in Keys, l \in Listeners : On(k, l)
    \/ \E k \in Keys, l \in Listeners : Off(k, l)
    \/ Close
    \/ \E name \in ExecutorEvents : ExecutorEmit(name)
    \/ \E m \in AllManagers : ManagerEmit(m)
    \/ Deliver
    \/ EmitReturns

SpecEmitter == EmitterInit /\ [][EmitterNext]_vars

\* ================================================================ claims
HasOp(seq, op) == \E i \in 1..Len(seq) : seq[i].op = op

\* The retry-after value the specification prescribes for a 429: the header's
\* integer when it is present and parseable, else 60.
SpecRetryAfter(h) ==
    IF h # <<>> /\ PyInt(h).ok THEN PyInt(h).v ELSE 60

Saw429 == step = "dispatch" /\ got.t = "response" /\ got.status = 429

\* C1: a request issued with skip_auth=true is never dispatched with an
\* Authorization header, whatever the credential store holds.
C1_SkipAuthNoAuthorization ==
    sent.skip_auth => sent.auth = NoToken

\* C2: after a first-attempt 401 with automatic refresh enabled and a refresh
\* that succeeds, exactly one refresh call has been made and the original
\* request is dispatched again with the newly stored access token, for every
\* retry count including 0.
C2_RefreshThenRetry ==
    (Len(stack) = 1 /\ stack[1].kind = "request" /\ stack[1].refreshed = "true")
    => /\ nRefreshCalls = 1
       /\ \/ stack[1].pc = "dispatch" /\ stack[1].auth = storage.access_token
          \/ nDispatch >= 2 /\ sent.auth = storage.access_token

\* C3: a non-2xx status other than 429 and first-attempt 401 makes the
\* executor raise at once: no further dispatch, no backoff sleep.
C3_ErrorStatusRaisesImmediately ==
    (step = "dispatch" /\ got.t = "response" /\ got.status >= 400
        /\ got.status \notin {401, 429})
    => (Top.pc = "raised" /\ ~HasOp(fx, "sleep"))

\* C4: in every activation the attempt index never exceeds max_attempts
\* (self.retries), and the original request is dispatched at most
\* max_attempts + 1 times.
C4_AttemptBounded ==
    /\ \A i \in 1..Len(stack) : stack[i].attempt <= cfg.retries
    /\ nDispatch <= cfg.retries + 1

C4_Witness ==
    /\ Len(stack) = 1 /\ stack[1].kind = "request" /\ Done(stack[1])
    /\ cfg.retries = 2 /\ nDispatch = 3
    /\ stack[1].refreshed = "true"
    /\ stack[1].last_exception = "NetworkError"

\* C5: a request that has used up its attempts ends by raising a typed error:
\* Network when the last failure was a transport error, RateLimit when it was
\* a 429.
C5_ExhaustionRaisesTyped ==
    (step = "dispatch" /\ sent.attempt = cfg.retries)
    => /\ got.t \in {"ConnectionError", "Timeout"}
            => (Top.pc = "raised" /\ Top.exc = "NetworkError")
       /\ (got.t = "response" /\ got.status = 429)
            => (Top.pc = "raised" /\ Top.exc = "RateLimitError")

\* C6: after a connection error or timeout at attempt index a, the executor
\* sleeps exactly retry_delay * 2^a and moves to attempt a + 1 when
\* a < max_attempts, and takes no sleep after the final failed attempt.
C6_BackoffExact ==
    (step = "dispatch" /\ got.t \in {"ConnectionError", "Timeout"})
    => IF sent.attempt < cfg.retries
       THEN /\ fx = <<Sleep(cfg.retry_delay * Pow2(sent.attempt))>>
            /\ Top.pc = "dispatch"
            /\ Top.attempt = sent.attempt + 1
       ELSE /\ ~HasOp(fx, "sleep")
            /\ Top.pc = "raised"

C6_Witness ==
    /\ step = "dispatch" /\ got.t = "Timeout"
    /\ sent.attempt = 1 /\ cfg.retry_delay = 3
    /\ fx = <<Sleep(6)>>
    /\ Top.attempt = 2

\* C7: every 429 the executor receives is followed by a rate_limit event
\* whose retry_after is the Retry-After header's integer when present and
\* parseable, and 60 when the header is absent or not parseable.
C7_RateLimitEventValue ==
    Saw429 =>
        \E i \in 1..Len(fx) : fx[i] = Emit("rate_limit", SpecRetryAfter(got.hdr), 0)

\* C8: on a 429 at attempt index a the rate_limit event comes first; then, if
\* a < max_attempts, the executor sleeps exactly the retry-after value and
\* dispatches again, and if a = max_attempts it raises RateLimit carrying
\* that retry-after value.
C8_RateLimitSleepOrRaise ==
    Saw429 =>
        LET ra == SpecRetryAfter(got.hdr)
        IN  IF sent.attempt < cfg.retries
            THEN /\ fx = <<Emit("rate_limit", ra, 0), Sleep(ra)>>
                 /\ Top.pc = "dispatch"
                 /\ Top.attempt = sent.attempt + 1
            ELSE /\ fx = <<Emit("rate_limit", ra, 0), RaiseFx("RateLimitError", ra)>>
                 /\ Top.pc = "raised"
                 /\ Top.exc = "RateLimitError"
                 /\ Top.exc_ra = ra

\* C9: with automatic refresh enabled, an Authentication error that the
\* executor surfaces for a logical request is preceded by exactly one
\* token-refresh attempt for that request.
C9_OneRefreshBeforeAuthError ==
    (cfg.auto_refresh_token /\ Len(stack) = 1 /\ stack[1].kind = "request"
        /\ stack[1].pc = "raised" /\ stack[1].exc = "AuthenticationError")
    => nRefreshCalls = 1

\* C10: refresh() called with no refresh token in the credential store
\* returns false at once: no request to the refresh endpoint is created, the
\* store is unchanged and no event is emitted.
C10_NoTokenRefreshIsInert ==
    [][(storage.refresh_token = NoToken /\ nRefreshCalls' = nRefreshCalls + 1)
        => /\ refreshRet' = "false"
           /\ storage' = storage
           /\ Len(stack') <= Len(stack)
           /\ ~HasOp(fx', "emit")]_vars

C10_Witness ==
    /\ step = "dispatch" /\ got.t = "response" /\ got.status = 401
    /\ sent.attempt = 0 /\ cfg.auto_refresh_token
    /\ storage.refresh_token = NoToken /\ storage.access_token # NoToken
    /\ nRefreshCalls = 1 /\ refreshRet = "false"
    /\ Len(stack) = 1 /\ Top.exc = "AuthenticationError"

\* C11: whenever refresh() returns false, the stored access token and refresh
\* token are both what they were before it finished.
C11_FailedRefreshKeepsTokens ==
    [][(step' = "resume" /\ refreshRet' = "false") => storage' = storage]_vars

\* The error classes of exceptions.py that the executor raises.
TypedErrors == {"DCAAuthError", "AuthenticationError", "RateLimitError", "NetworkError"}

\* C17: every failure that leaves the executor is an error of the typed
\* taxonomy (DCAAuthError or a subclass), never a raw exception.
C17_OnlyTypedErrors ==
    \A i \in 1..Len(stack) :
        stack[i].pc = "raised" => stack[i].exc \in TypedErrors

\* C15: with max_attempts = 3, a request answered 503, 503, 503 and then 200
\* ends in an error; it is never dispatched a fourth time, so the 200 is
\* never reached.
C15_FourthResponseNeverReached ==
    /\ nDispatch <= 3
    /\ ~(stack # <<>> /\ stack[1].pc = "returned")

\* ---- claims about the classifier (SpecClassify)
Classified == step = "classify"

\* The details object of the classified response's body, empty when the body
\* carries none.
RespDetails ==
    IF resp.json = "object" /\ resp.details.t = "dict" THEN resp.details.d ELSE EmptyDict

RespCodeIs(c) == resp.json = "object" /\ resp.code.t = "str" /\ resp.code.v = c

RespCodeIsLicense ==
    resp.json = "object" /\ resp.code.t = "str" /\ Len(resp.code.v) = 2
        /\ resp.code.v[1] = "LICENSE_"

StatusMatched == resp.status \in {400, 401, 403, 404, 409, 429} \/ resp.status >= 500

LicenseKinds == {"LicenseError", "LicenseExpiredError", "LicenseNotFoundError",
                 "LicenseInactiveError", "LicenseActivationError", "MaxActivationsError"}

\* C16: a 404 whose body has code LICENSE_NOT_FOUND and details.license_key = k
\* is classified as a License-NotFound error whose details.license_key is k.
C16_LicenseNotFoundKeepsKey ==
    (Classified /\ resp.status = 404 /\ RespCodeIs(License("NOT_FOUND"))
        /\ "license_key" \in DOMAIN RespDetails)
    => /\ err.kind = "LicenseNotFoundError"
       /\ "license_key" \in DOMAIN err.details
       /\ err.details["license_key"] = RespDetails["license_key"]

\* C18: for every response the classifier dispatches on the status first:
\* 401 Authentication, 403 Authorization, 404 NotFound with resource and id
\* from details, 409 Conflict, 429 RateLimit, >= 500 Server, 400 Validation
\* with the field errors when code is VALIDATION_ERROR and generic otherwise;
\* a License error is returned only when none of these statuses match.
C18_StatusBeforeCode ==
    Classified =>
        /\ resp.status = 401 => err.kind = "AuthenticationError"
        /\ resp.status = 403 => err.kind = "AuthorizationError"
        /\ resp.status = 404 =>
              /\ err.kind = "NotFoundError"
              /\ err.details["resource"] = Get(RespDetails, "resource", "Resource")
              /\ err.details["id"] = Get(RespDetails, "id", None)
        /\ resp.status = 409 => err.kind = "ConflictError"
        /\ resp.status = 429 => err.kind = "RateLimitError"
        /\ resp.status >= 500 => err.kind = "ServerError"
        /\ resp.status = 400 =>
              IF RespCodeIs(<<"VALIDATION_ERROR">>)
              THEN err.kind = "ValidationError"
                     /\ err.fields = Get(RespDetails, "fields", None)
              ELSE err.kind = "DCAAuthError"
        /\ StatusMatched => err.kind \notin LicenseKinds

\* The License sub-kind the specification names for a code suffix.
SpecLicenseKind(suffix) ==
    CASE suffix = "EXPIRED" -> "LicenseExpiredError"
      [] suffix = "NOT_FOUND" -> "LicenseNotFoundError"
      [] suffix = "INACTIVE" -> "LicenseInactiveError"
      [] suffix = "ACTIVATION_ERROR" -> "LicenseActivationError"
      [] suffix = "MAX_ACTIVATIONS_REACHED" -> "MaxActivationsError"
      [] OTHER -> "LicenseError"

\* C19: when no status branch matches and the code begins with LICENSE_, the
\* classifier returns the License sub-kind of the code's suffix (Expired,
\* NotFound, Inactive, ActivationFailed, MaxActivations) and the generic
\* License error only for a suffix it does not know.
C19_LicenseSubKinds ==
    (Classified /\ ~StatusMatched /\ RespCodeIsLicense)
    => err.kind = SpecLicenseKind(resp.code.v[2])

\* C20: the RateLimit error of a 429 carries the Retry-After header's integer
\* when the header is present and parseable, and otherwise the retry-after
\* value of the response body.
C20_RetryAfterHeaderThenBody ==
    (Classified /\ resp.status = 429 /\ resp.json = "object")
    => /\ err.kind = "RateLimitError"
       /\ IF resp.hdr # <<>> /\ PyInt(resp.hdr).ok
          THEN err.retry_after = [some |-> TRUE, v |-> PyInt(resp.hdr).v]
          ELSE "retry_after" \in DOMAIN RespDetails
                 => err.retry_after = [some |-> TRUE, v |-> RespDetails["retry_after"]]

\* The error kind the status dispatch gives a payload without a domain code.
SpecStatusKind(status) ==
    CASE status = 401 -> "AuthenticationError"
      [] status = 403 -> "AuthorizationError"
      [] status = 404 -> "NotFoundError"
      [] status = 409 -> "ConflictError"
      [] status = 429 -> "RateLimitError"
      [] status >= 500 -> "ServerError"
      [] OTHER -> "DCAAuthError"

\* The fallback payload shows in the error the dispatch builds: every kind
\* but NotFound (whose message is made from the resource) carries the
\* payload's message, and the generic kind carries the payload's code.
FallbackPayloadUsed(message) ==
    /\ err.kind = SpecStatusKind(resp.status)
    /\ err.kind # "NotFoundError" => err.message = <<message>>
    /\ err.kind = "DCAAuthError" => err.code = <<"UNKNOWN_ERROR">>

ClassifierKinds ==
    {"DCAAuthError", "AuthenticationError", "AuthorizationError", "ValidationError",
     "NotFoundError", "ConflictError", "RateLimitError", "ServerError"} \cup LicenseKinds

\* C29: the classifier is total: for every response it returns a typed error
\* value and never raises an exception itself.
C29_ClassifierTotal ==
    Classified => err.kind \in ClassifierKinds

\* ---- claims about concurrent callers (SpecConc)
\* C12: token replacement is atomic: at no moment does the store hold the
\* access token of one pair together with the refresh token of another, so no
\* concurrently running request or reader can observe a mixed pair.
C12_TokenPairReplacedAtomically ==
    storage.refresh_token = RefreshBase + storage.access_token

\* C13: at most one network call to the refresh endpoint is in flight at any
\* time, also when two concurrent requests both received a first-attempt 401.
C13_OneRefreshInFlight ==
    Cardinality({t \in Threads : Th(t).pc = "refresh_wait"}) <= 1

\* C14: a caller that triggered refresh while another caller's refresh was
\* under way retries with the access token produced by that first refresh,
\* not with a stale token or one from a refresh of its own.
C14_SecondCallerUsesFirstToken ==
    \A t \in Threads :
        (Th(t).second /\ Th(t).attempt = 1 /\ Th(Other(t)).data # NoToken)
        => Th(t).auth = Th(Other(t)).data

\* ---- further claims about the executor (Spec)
\* The last step dispatched the original request (not a refresh POST).
DispatchedOriginal == step = "dispatch" /\ sent.kind = "request" /\ sent.depth = 1

\* C25: a successful refresh after a first-attempt 401 uses up no retry: the
\* re-dispatched request is retried after a transport failure as long as
\* fewer than max_attempts such retries were made since the refresh.
C25_RefreshTakesNoRetrySlot ==
    (DispatchedOriginal /\ stack[1].refreshed = "true"
        /\ got.t \in {"ConnectionError", "Timeout"}
        /\ sent.attempt - 1 < cfg.retries)
    => (stack[1].pc = "dispatch" /\ HasOp(fx, "sleep"))

\* C26: a 401 raises AuthenticationError at once, with no refresh and no
\* further dispatch, when automatic refresh is off or the 401 is not on the
\* first attempt; so does a refresh that returned false; and an activation
\* whose refresh succeeded never enters refresh again.
C26_UnrefreshableUnauthorizedRaises ==
    /\ (step = "dispatch" /\ got.t = "response" /\ got.status = 401
            /\ (~cfg.auto_refresh_token \/ sent.attempt > 0))
       => /\ Len(stack) = sent.depth
          /\ Top.pc = "raised" /\ Top.exc = "AuthenticationError"
          /\ fx = <<RaiseFx("AuthenticationError", 0)>>
    /\ \A i \in 1..Len(stack) :
          /\ stack[i].refreshed = "false"
               => (stack[i].pc = "raised" /\ stack[i].exc = "AuthenticationError")
          /\ stack[i].refreshed = "true" => stack[i].pc # "refreshing"

C26_Witness ==
    /\ DispatchedOriginal /\ got.t = "response" /\ got.status = 401
    /\ sent.attempt = 1 /\ stack[1].refreshed = "true" /\ nRefreshCalls = 1
    /\ stack[1].pc = "raised" /\ stack[1].exc = "AuthenticationError"

\* C27: every dispatched attempt of a request carries X-API-Key when a key
\* is configured and the stored access token when one is stored and the
\* request has no Authorization of the caller's; a request that carries the
\* caller's Authorization goes into every later attempt with that value
\* unchanged, also after a token refresh.
C27_RequestBuilding ==
    [][/\ (step' = "dispatch" /\ sent'.kind = "request")
          => /\ sent'.apikey = cfg.api_key
             /\ (sent'.auth # CallerAuth /\ storage.access_token # NoToken)
                  => sent'.auth = storage.access_token
       /\ (stack # <<>> /\ stack[1].kind = "request" /\ stack[1].auth = CallerAuth
            /\ step' \in {"dispatch", "resume"} /\ stack'[1].pc = "dispatch")
          => stack'[1].auth = CallerAuth]_vars

\* C28: the refresh request never triggers another refresh: at most the
\* original request and one refresh POST are ever active, so the number of
\* dispatches of a call is bounded by the retry counts alone.
C28_RefreshNeverRecurses ==
    /\ Len(stack) <= 2
    /\ \A i \in 1..Len(stack) : stack[i].kind = "refresh" => stack[i].pc # "refreshing"

\* ---- claims about the emitter (SpecEmitter)
\* C22: a listener that raises during emit is isolated: the listeners after
\* it still have their turn, the exception does not reach the call site, and
\* the rate_limit or auth:refresh call site of the executor gets its emit
\* back normally and goes on.
C22_ListenerExceptionIsolated ==
    [][/\ (step' = "deliver" /\ em'.last.invoked /\ em'.last.threw)
          => /\ em'.queue = Tail(em.queue)
             /\ em'.site = em.site
             /\ ~em'.propagated
       /\ step' = "emitted" => ~em.propagated]_vars

C22_Witness ==
    /\ step = "deliver" /\ em.last.invoked /\ em.last.threw
    /\ em.site = "rate_limit" /\ em.queue # <<>>

\* C23: once off(event_name, listener) or remove_all_listeners() has
\* returned, the listener is not called again, not even in the remainder of
\* an emission that was in progress: a listener is called only while it is
\* subscribed under the key it is called for.
C23_RemovedListenerNotCalled ==
    (step = "deliver" /\ em.last.invoked /\ em.last.on = "client")
    => em.last.l \in Range(em.reg[em.last.key])

C23_Witness ==
    /\ step = "deliver" /\ em.last.on = "client" /\ ~em.last.invoked
    /\ em.last.l \notin Range(em.reg[em.last.key])

\* C24: an event emitted by the License, Auth, User or Webhook manager is
\* emitted again on the client exactly once, with its name and payload, and
\* in an emission the wildcard listeners come after those of the exact name.
C24_ManagerEventsForwardedOnce ==
    /\ em.nReemit <= 1
    /\ (em.site \in {"licenses", "auth", "users", "webhooks"} /\ em.queue = <<>>)
       => (em.nReemit = 1 /\ em.reemitted = em.origin)
    /\ \A i, j \in 1..Len(em.queue) :
          (i < j /\ em.queue[i].on = "client" /\ em.queue[i].key = Wildcard)
          => em.queue[j].key = Wildcard

C24_Witness ==
    /\ em.site = "webhooks" /\ em.queue = <<>>
    /\ em.nReemit = 1 /\ em.reemitted = [name |-> "license.activated", payload |-> 2]
    /\ em.last.on = "client" /\ em.last.key = Wildcard /\ em.last.invoked
    /\ em.last.name = "license.activated" /\ em.last.payload = 2

====
